---- MODULE Spec2Model ----
(***************************************************************************)
(* Shipping-label form selectors of woocommerce-services                   *)
(* (state/shipping-label/selectors): address, package, customs and rates   *)
(* validation, the step gate and the purchase gate.                        *)
(*                                                                         *)
(* Representation.  A JS object used as a map is a function whose DOMAIN   *)
(* is the set of keys that are present; null / undefined is Null.  Strings *)
(* the code only tests for emptiness or equality are TLA+ strings; strings *)
(* the code takes apart (postcode, phone) are sequences of one-character   *)
(* strings.                                                                *)
(***************************************************************************)
EXTENDS Integers, Sequences, FiniteSets, TLC

VARIABLES
    shippingLabel,    \* the shipping-label subtree of the store: loaded, form, paperSize
    locations,        \* location data of the store: countries with states, country names
    formErrorsCache,  \* the memoized result of getFormErrors: [valid, value]
    usableCache,      \* the memoized results of isAddressUsable, one [valid, value] per group
    gateCall,         \* which store selector ran last on this store: "none", "step", "purchase",
                      \* "required", "usable"
    stepResult,       \* what getFirstErroneousStep returned ("" before the call)
    purchaseResult,   \* what canPurchase returned (FALSE before the call)
    requiredResult,   \* what isCustomsFormRequired returned (FALSE before the call)
    usableResult,     \* what isAddressUsable returned and for which group: [group, value]
    addressData,      \* the address record handed to the address validator
    fieldsToValidate, \* the flags handed to the address validator
    addressCall,      \* which address selector ran last: "none", "raw", "full"
    addressErrors,    \* the error map that selector returned
    customsArgs,      \* the arguments handed to getCustomsErrors
    customsErrors,    \* what getCustomsErrors returned, Null before the call
    ratesArgs,        \* the rates subtree (form.rates) handed to the rates selectors
    ratesCall,        \* which rates selector ran last: "none", "errors", "breakdown"
    ratesErrors,      \* what getRatesErrors returned
    priceBreakdown    \* what getTotalPriceBreakdown returned

addressVars == <<addressData, fieldsToValidate, addressCall, addressErrors>>

customsVars == <<customsArgs, customsErrors>>

ratesVars == <<ratesArgs, ratesCall, ratesErrors, priceBreakdown>>

storeVars ==
    <<shippingLabel, formErrorsCache, usableCache, gateCall, stepResult, purchaseResult,
      requiredResult, usableResult>>

vars == <<locations, storeVars, addressVars, customsVars, ratesVars>>

(***************************************************************************)
(* Values                                                                  *)
(***************************************************************************)
Null == [null |-> TRUE]

EmptyMap == [k \in {} |-> ""]

\* map[key] is truthy, for a map that is present
IsTrue(map, key) == key \in DOMAIN map /\ map[key] = TRUE

\* map && map[key]
Truthy(map, key) == map # Null /\ IsTrue(map, key)

Rep(c, n) == [i \in 1..n |-> c]

Digits == {"0", "1", "2", "3", "4", "5", "6", "7", "8", "9"}

IsDigit(c) == c \in Digits

(***************************************************************************)
(* Translated messages                                                     *)
(***************************************************************************)
MsgRequired == "This field is required"

MsgNameOrCompany == "Either Name or Company field is required"

MsgPostcodeFormat == "Invalid ZIP/Postal code format"

MsgOriginPhoneRequired == "An origin address phone number is required for this shipment."

MsgPhoneFormat == "Customs forms require a 10-digit phone number."

MsgDestinationPhoneRequired == "A destination address phone number is required for this shipment."

MsgNotRecognized == "This address is not recognized. Please try another."

(***************************************************************************)
(* Collaborators                                                           *)
(***************************************************************************)
ACCEPTED_USPS_ORIGIN_COUNTRIES == {"US", "PR", "VI", "GU", "AS", "UM", "MH", "FM", "MP"}

US_MILITARY_STATES == {"AA", "AE", "AP"}

hasStates(appState, country) == country \in appState.states

getCountryName(appState, code) ==
    IF code \in DOMAIN appState.names THEN appState.names[code] ELSE code

getAddressValues(data) == data.values

(***************************************************************************)
(* getRawAddressErrors                                                     *)
(***************************************************************************)
AddressStringFields == {"name", "company", "address", "city", "country", "state"}

\* !values[field]
Blank(values, field) ==
    IF field \in AddressStringFields THEN values[field] = "" ELSE values[field] = <<>>

requiredFields == {"address", "city", "postcode", "country"}

\* /^\d{5}(?:-\d{4})?$/.test( postcode )
PostcodeTest(postcode) ==
    \/ Len(postcode) = 5 /\ \A i \in 1..5 : IsDigit(postcode[i])
    \/ /\ Len(postcode) = 10
       /\ \A i \in 1..5 : IsDigit(postcode[i])
       /\ postcode[6] = "-"
       /\ \A i \in 7..10 : IsDigit(postcode[i])

\* phone.split( /\D+/g ).join( '' ).replace( /^1/, '' )
PhoneDigits(phone) ==
    LET digits == SelectSeq(phone, IsDigit)
    IN  IF digits # <<>> /\ Head(digits) = "1" THEN Tail(digits) ELSE digits

PhoneLengthOk(phone) == Len(PhoneDigits(phone)) = 10


OriginPhoneErrorMutantNoGuard(phone, flags) ==
    IF phone = <<>>
    THEN (IF IsTrue(flags, "originPhone") THEN {MsgOriginPhoneRequired} ELSE {})
    ELSE (IF ~PhoneLengthOk(phone) THEN {MsgPhoneFormat} ELSE {})

\* the block guarded by true === originPhone; the set holds the message it assigns
OriginPhoneError(phone, flags) ==
    IF IsTrue(flags, "originPhone")
    THEN (IF phone = <<>> THEN {MsgOriginPhoneRequired}
          ELSE IF ~PhoneLengthOk(phone) THEN {MsgPhoneFormat} ELSE {})
    ELSE {}

\* the block guarded by true === destinationPhone && !phone
DestinationPhoneError(phone, flags) ==
    IF IsTrue(flags, "destinationPhone") /\ phone = <<>>
    THEN {MsgDestinationPhoneRequired}
    ELSE {}

\* errors.phone after both blocks: the later assignment wins
PhoneError(phone, flags) ==
    IF DestinationPhoneError(phone, flags) # {}
    THEN DestinationPhoneError(phone, flags)
    ELSE OriginPhoneError(phone, flags)

getRawAddressErrors(appState, data, flags) ==
    LET values == data.values
        v == getAddressValues(data)
        missing == {f \in requiredFields : Blank(values, f)}
        noName == v.name = "" /\ v.company = ""
        badPostcode == v.country \in ACCEPTED_USPS_ORIGIN_COUNTRIES /\ ~PostcodeTest(v.postcode)
        noState == v.state = "" /\ hasStates(appState, v.country)
        phoneError == PhoneError(v.phone, flags)
        keys == missing
                \cup (IF noName THEN {"name", "company"} ELSE {})
                \cup (IF badPostcode THEN {"postcode"} ELSE {})
                \cup (IF noState THEN {"state"} ELSE {})
                \cup (IF phoneError # {} THEN {"phone"} ELSE {})
    IN  [f \in keys |->
            IF f = "phone" THEN CHOOSE m \in phoneError : TRUE
            ELSE IF f = "postcode" /\ badPostcode THEN MsgPostcodeFormat
            ELSE IF f \in {"name", "company"} THEN MsgNameOrCompany
            ELSE MsgRequired]

(***************************************************************************)
(* getAddressErrors                                                        *)
(***************************************************************************)
\* the delete loop over Object.keys( errors )
DropIgnored(errors, ignoreValidation) ==
    IF ignoreValidation # Null
    THEN [f \in {k \in DOMAIN errors : ~Truthy(ignoreValidation, k)} |-> errors[f]]
    ELSE errors

getAddressErrorsMutantUnverifiableUnrecognized(data, appState, flags) ==
    IF (data.isNormalized \/ data.isUnverifiable) /\ data.normalized = Null /\ data.fieldErrors # Null
    THEN data.fieldErrors
    ELSE IF (data.isNormalized \/ data.isUnverifiable) /\ data.normalized = Null
    THEN [f \in {"address"} |-> MsgNotRecognized]
    ELSE DropIgnored(getRawAddressErrors(appState, data, flags), data.ignoreValidation)

getAddressErrorsMutantAlwaysBypass(data, appState, flags) ==
    IF data.normalized = Null /\ data.fieldErrors # Null
    THEN data.fieldErrors
    ELSE IF data.isNormalized /\ data.normalized = Null
    THEN [f \in {"address"} |-> MsgNotRecognized]
    ELSE DropIgnored(getRawAddressErrors(appState, data, flags), data.ignoreValidation)

getAddressErrors(data, appState, flags) ==
    IF (data.isNormalized \/ data.isUnverifiable) /\ data.normalized = Null /\ data.fieldErrors # Null
    THEN data.fieldErrors
    ELSE IF data.isNormalized /\ data.normalized = Null
    THEN [f \in {"address"} |-> MsgNotRecognized]
    ELSE DropIgnored(getRawAddressErrors(appState, data, flags), data.ignoreValidation)

(***************************************************************************)
(* JS numbers: a number the code computes with is [nan, n]                 *)
(***************************************************************************)
NaN == [nan |-> TRUE, n |-> 0]

Num(n) == [nan |-> FALSE, n |-> n]

Plus(a, b) == IF a.nan \/ b.nan THEN NaN ELSE Num(a.n + b.n)

Times(q, a) == IF a.nan THEN NaN ELSE Num(q * a.n)

\* k < a
Exceeds(a, k) == ~a.nan /\ k < a.n

\* A form input that holds a number: undefined, '', unparseable text or a number.
Undef == [kind |-> "undefined", n |-> 0]

Empty == [kind |-> "empty", n |-> 0]

Text == [kind |-> "text", n |-> 0]

Number(n) == [kind |-> "num", n |-> n]

\* the coercion of quantity * value
ToNumber(v) ==
    IF v.kind = "num" THEN Num(v.n) ELSE IF v.kind = "empty" THEN Num(0) ELSE NaN

parseFloat(v) == IF v.kind = "num" THEN Num(v.n) ELSE NaN

\* a string field that is undefined
Undefined == "undefined"

(***************************************************************************)
(* getPackagesErrors                                                       *)
(***************************************************************************)
MsgSelectPackage == "Please select a package"

MsgInvalidWeight == "Invalid weight"

MsgDimensions == "Package dimensions must be greater than zero"

isInvalidDimension(dimension) == 0 >= dimension

getPackagesErrors(values) ==
    [p \in DOMAIN values |->
        LET pckg == values[p]
            keys == (IF pckg.box_id = "not_selected" THEN {"box_id"} ELSE {})
                    \cup (IF isInvalidDimension(pckg.weight) THEN {"weight"} ELSE {})
                    \cup (IF \E d \in {pckg.length, pckg.width, pckg.height} : isInvalidDimension(d)
                          THEN {"dimensions"} ELSE {})
        IN  [f \in keys |->
                IF f = "box_id" THEN MsgSelectPackage
                ELSE IF f = "weight" THEN MsgInvalidWeight
                ELSE MsgDimensions]]

(***************************************************************************)
(* getCustomsErrors                                                        *)
(***************************************************************************)
USPS_ITN_REQUIRED_DESTINATIONS == {"IR", "SY", "KP", "CU", "SD"}

ItnThreshold == 2500

TariffLength == 6

MinDescriptionLength == 3

MsgContentsExplanation == "Please describe what kind of goods this package contains"

MsgRestrictionComments == "Please describe what kind of restrictions this package must have"

MsgInvalidFormat == "Invalid format"

MsgItnThreshold(code) ==
    "International Transaction Number is required for shipping items valued over $2,500 per tariff number. Products with tariff number "
    \o code \o " add up to more than $2,500."

MsgItnCountry(country) == "International Transaction Number is required for shipments to " \o country

MsgDescription == "You must provide a clear, specific description for every item."

MsgWeightPositive == "Weight must be greater than zero"

MsgValuePositive == "Declared value must be greater than zero"

MsgTariffLength == "The tariff number must be 6 digits long"

LowerLetters ==
    {"a", "b", "c", "d", "e", "f", "g", "h", "i", "j", "k", "l", "m",
     "n", "o", "p", "q", "r", "s", "t", "u", "v", "w", "x", "y", "z"}

AesPrefix == <<"A", "E", "S", " ", "X">>

NoeeiPrefix == <<"N", "O", "E", "E", "I", " ", "3", "0", ".">>

\* /^(?:(?:AES X\d{14})|(?:NOEEI 30\.\d{1,2}(?:\([a-z]\)(?:\(\d\))?)?))$/.test( itn )
ItnTest(itn) ==
    \/ /\ Len(itn) = 19
       /\ SubSeq(itn, 1, 5) = AesPrefix
       /\ \A i \in 6..19 : IsDigit(itn[i])
    \/ \E nd \in 1..2 : \E tail \in {0, 3, 6} :
          /\ Len(itn) = 9 + nd + tail
          /\ SubSeq(itn, 1, 9) = NoeeiPrefix
          /\ \A i \in 10..(9 + nd) : IsDigit(itn[i])
          /\ tail >= 3 =>
                /\ itn[10 + nd] = "("
                /\ itn[11 + nd] \in LowerLetters
                /\ itn[12 + nd] = ")"
          /\ tail = 6 =>
                /\ itn[13 + nd] = "("
                /\ IsDigit(itn[14 + nd])
                /\ itn[15 + nd] = ")"

\* uniq( flatten( map( packages, pckg => map( pckg.items, 'product_id' ) ) ) )
usedProductIds(packages) ==
    UNION {{packages[p].items[i].product_id : i \in DOMAIN packages[p].items} : p \in DOMAIN packages}

\* the inner forEach over pckg.items, for one product id
RECURSIVE ItemsValue(_, _, _)
ItemsValue(items, customs, id) ==
    IF items = <<>> THEN Num(0)
    ELSE Plus(IF Head(items).product_id = id
              THEN Times(Head(items).quantity, ToNumber(customs.items[id].value))
              ELSE Num(0),
              ItemsValue(Tail(items), customs, id))

FirstPackageOnlyMutant(packages, ids, customs, id) ==
    IF ids = {} THEN Num(0)
    ELSE LET p == CHOOSE q \in ids : TRUE
         IN  ItemsValue(packages[p].items, customs, id)

RECURSIVE PackagesValue(_, _, _, _)
PackagesValue(packages, ids, customs, id) ==
    IF ids = {} THEN Num(0)
    ELSE LET p == CHOOSE q \in ids : TRUE
         IN  Plus(ItemsValue(packages[p].items, customs, id),
                  PackagesValue(packages, ids \ {p}, customs, id))

valuesByProductId(packages, customs) ==
    [id \in usedProductIds(packages) |-> PackagesValue(packages, DOMAIN packages, customs, id)]

HasTariffClass(itemData) ==
    /\ itemData.tariffNumber # Undefined
    /\ itemData.tariffNumber # ""
    /\ Len(itemData.tariffNumber) = TariffLength

\* The forEach over pick( customs.items, usedProductIds ) for one tariff number: product
\* ids are integer keys, visited in ascending order; a total that is falsy (0 or NaN)
\* is reset to 0 before the next product is added.
RECURSIVE TariffValue(_, _, _, _, _)
TariffValue(ids, customs, byProduct, code, acc) ==
    IF ids = {} THEN acc
    ELSE LET id == CHOOSE i \in ids : \A j \in ids : i <= j
             start == IF acc.nan \/ acc.n = 0 THEN Num(0) ELSE acc
         IN  TariffValue(ids \ {id}, customs, byProduct, code,
                         IF HasTariffClass(customs.items[id]) /\ customs.items[id].tariffNumber = code
                         THEN Plus(start, byProduct[id])
                         ELSE acc)

valuesByTariffNumber(packages, customs) ==
    LET ids == usedProductIds(packages)
        codes == {customs.items[id].tariffNumber : id \in {i \in ids : HasTariffClass(customs.items[i])}}
    IN  [code \in codes |-> TariffValue(ids, customs, valuesByProductId(packages, customs), code, Num(0))]

\* the indices of pckg.items whose tariff number is added to classesAbove2500usd
ItemsAbove2500usd(pckg, customs, byTariff) ==
    {i \in DOMAIN pckg.items :
        LET tariffNumber == customs.items[pckg.items[i].product_id].tariffNumber
        IN  tariffNumber \in DOMAIN byTariff /\ Exceeds(byTariff[tariffNumber], ItnThreshold)}

\* classesAbove2500usd.values().next().value: the code inserted first
FirstClassAbove2500usd(pckg, customs, above) ==
    LET i == CHOOSE k \in above : \A j \in above : k <= j
    IN  customs.items[pckg.items[i].product_id].tariffNumber

ItnErrorMutantNoCanadaExemption(pckg, customs, byTariff, destinationCountryCode, destinationCountryName) ==
    LET above == ItemsAbove2500usd(pckg, customs, byTariff)
    IN  IF pckg.itn # <<>>
        THEN (IF ~ItnTest(pckg.itn) THEN {MsgInvalidFormat} ELSE {})
        ELSE IF above # {} THEN {MsgItnThreshold(FirstClassAbove2500usd(pckg, customs, above))}
        ELSE IF destinationCountryCode \in USPS_ITN_REQUIRED_DESTINATIONS
        THEN {MsgItnCountry(destinationCountryName)}
        ELSE {}

ItnError(pckg, customs, byTariff, destinationCountryCode, destinationCountryName) ==
    LET above == ItemsAbove2500usd(pckg, customs, byTariff)
    IN  IF pckg.itn # <<>>
        THEN (IF ~ItnTest(pckg.itn) THEN {MsgInvalidFormat} ELSE {})
        ELSE IF destinationCountryCode # "CA"
        THEN (IF above # {} THEN {MsgItnThreshold(FirstClassAbove2500usd(pckg, customs, above))}
              ELSE IF destinationCountryCode \in USPS_ITN_REQUIRED_DESTINATIONS
              THEN {MsgItnCountry(destinationCountryName)}
              ELSE {})
        ELSE {}

CustomsPackageErrors(pckg, customs, byTariff, destinationCountryCode, destinationCountryName) ==
    LET itn == ItnError(pckg, customs, byTariff, destinationCountryCode, destinationCountryName)
        keys == (IF pckg.contentsType = "other" /\ pckg.contentsExplanation = ""
                 THEN {"contentsExplanation"} ELSE {})
                \cup (IF pckg.restrictionType = "other" /\ pckg.restrictionComments = ""
                      THEN {"restrictionComments"} ELSE {})
                \cup (IF itn # {} THEN {"itn"} ELSE {})
    IN  [f \in keys |->
            IF f = "contentsExplanation" THEN MsgContentsExplanation
            ELSE IF f = "restrictionComments" THEN MsgRestrictionComments
            ELSE CHOOSE m \in itn : TRUE]

\* the weight / value check of one customs item: the message it assigns, if any
NumberFieldError(input, positiveMsg) ==
    IF input.kind \in {"undefined", "empty"} THEN {MsgRequired}
    ELSE IF ~Exceeds(parseFloat(input), 0) THEN {positiveMsg}
    ELSE {}

CustomsItemErrorsMutantNoIgnore(itemData, productId, customs) ==
    LET weight == NumberFieldError(itemData.weight, MsgWeightPositive)
        value == NumberFieldError(itemData.value, MsgValuePositive)
        keys == (IF itemData.description \in {Undefined, ""}
                    \/ Len(itemData.description) < MinDescriptionLength
                 THEN {"description"} ELSE {})
                \cup (IF weight # {} THEN {"weight"} ELSE {})
                \cup (IF value # {} THEN {"value"} ELSE {})
                \cup (IF /\ itemData.tariffNumber \notin {Undefined, ""}
                         /\ Len(itemData.tariffNumber) # TariffLength
                      THEN {"tariffNumber"} ELSE {})
    IN  [f \in keys |->
            IF f = "description" THEN MsgDescription
            ELSE IF f = "weight" THEN CHOOSE m \in weight : TRUE
            ELSE IF f = "value" THEN CHOOSE m \in value : TRUE
            ELSE MsgTariffLength]

CustomsItemErrors(itemData, productId, customs) ==
    LET weight == IF IsTrue(customs.ignoreWeightValidation, productId) THEN {}
                  ELSE NumberFieldError(itemData.weight, MsgWeightPositive)
        value == IF IsTrue(customs.ignoreValueValidation, productId) THEN {}
                 ELSE NumberFieldError(itemData.value, MsgValuePositive)
        keys == (IF itemData.description \in {Undefined, ""}
                    \/ Len(itemData.description) < MinDescriptionLength
                 THEN {"description"} ELSE {})
                \cup (IF weight # {} THEN {"weight"} ELSE {})
                \cup (IF value # {} THEN {"value"} ELSE {})
                \cup (IF /\ itemData.tariffNumber \notin {Undefined, ""}
                         /\ Len(itemData.tariffNumber) # TariffLength
                      THEN {"tariffNumber"} ELSE {})
    IN  [f \in keys |->
            IF f = "description" THEN MsgDescription
            ELSE IF f = "weight" THEN CHOOSE m \in weight : TRUE
            ELSE IF f = "value" THEN CHOOSE m \in value : TRUE
            ELSE MsgTariffLength]

getCustomsErrors(packages, customs, destinationCountryCode, destinationCountryName) ==
    LET byTariff == valuesByTariffNumber(packages, customs)
    IN  [packages |->
            [p \in DOMAIN packages |->
                CustomsPackageErrors(packages[p], customs, byTariff,
                                     destinationCountryCode, destinationCountryName)],
         items |->
            [id \in usedProductIds(packages) |->
                CustomsItemErrors(customs.items[id], id, customs)]]

(***************************************************************************)
(* getRatesErrors, getSidebarErrors                                        *)
(***************************************************************************)
MsgCouldntGetRate == "We couldn't get a rate for this package, please try again."

MsgNoRates == "No rates available, please double check dimensions and weight or try using different packaging."

MsgChooseRate == "Please choose a rate"

\* err.userMessage || err.message
ErrorText(err) == IF err.userMessage # "" THEN err.userMessage ELSE err.message

NonBlank(text) == text # ""

HasServiceSelected(selectedRates, boxId) ==
    boxId \in DOMAIN selectedRates /\ selectedRates[boxId].serviceId # ""

getRatesErrorsMutantNoChoiceNeeded(rates) ==
    [boxId \in DOMAIN rates.available |->
        LET rate == rates.available[boxId]
            messages == SelectSeq([i \in DOMAIN rate.default.errors |-> ErrorText(rate.default.errors[i])],
                                  NonBlank)
        IN  IF rate.default.errors # <<>>
            THEN (IF messages # <<>> THEN messages ELSE <<MsgCouldntGetRate>>)
            ELSE IF HasServiceSelected(rates.values, boxId) THEN <<>>
            ELSE IF rate.default.rates = <<>> THEN <<MsgNoRates>>
            ELSE <<>>]

getRatesErrorsMutantSelectionFirst(rates) ==
    [boxId \in DOMAIN rates.available |->
        LET rate == rates.available[boxId]
            messages == SelectSeq([i \in DOMAIN rate.default.errors |-> ErrorText(rate.default.errors[i])],
                                  NonBlank)
        IN  IF HasServiceSelected(rates.values, boxId) THEN <<>>
            ELSE IF rate.default.errors # <<>>
            THEN (IF messages # <<>> THEN messages ELSE <<MsgCouldntGetRate>>)
            ELSE IF rate.default.rates = <<>> THEN <<MsgNoRates>>
            ELSE <<MsgChooseRate>>]

getRatesErrors(rates) ==
    [boxId \in DOMAIN rates.available |->
        LET rate == rates.available[boxId]
            messages == SelectSeq([i \in DOMAIN rate.default.errors |-> ErrorText(rate.default.errors[i])],
                                  NonBlank)
        IN  IF rate.default.errors # <<>>
            THEN (IF messages # <<>> THEN messages ELSE <<MsgCouldntGetRate>>)
            ELSE IF HasServiceSelected(rates.values, boxId) THEN <<>>
            ELSE IF rate.default.rates = <<>> THEN <<MsgNoRates>>
            ELSE <<MsgChooseRate>>]

getSidebarErrors(paperSize) ==
    IF paperSize = "" THEN [f \in {"paperSize"} |-> MsgRequired] ELSE EmptyMap

(***************************************************************************)
(* hasNonEmptyLeaves, one operator per shape of error tree                 *)
(***************************************************************************)
\* a map of messages
hasNonEmptyLeaves(tree) == \E k \in DOMAIN tree : tree[k] # ""

\* a map of maps of messages
hasNonEmptyLeavesNested(tree) == \E k \in DOMAIN tree : hasNonEmptyLeaves(tree[k])

\* the customs error tree { packages, items }
hasNonEmptyLeavesCustoms(tree) ==
    hasNonEmptyLeavesNested(tree.packages) \/ hasNonEmptyLeavesNested(tree.items)

(***************************************************************************)
(* Store selectors.  state is [shippingLabel, locations, formErrorsCache,  *)
(* usableCache].                                                           *)
(***************************************************************************)
isLoaded(state) == state.shippingLabel.loaded

getForm(state) == state.shippingLabel.form

\* isEmpty( form )
isEmptyForm(form) == form = Null

(***************************************************************************)
(* hasSelectedRates, getTotalPriceBreakdown.  Amounts are integer cents.   *)
(***************************************************************************)
\* the package ids in the order the keys of an object are enumerated
PackageIds == <<"pk1", "pk2">>

IsKeyOf(map, k) == k \in DOMAIN map

\* the keys of a map keyed by package id, in enumeration order
KeysInOrder(map) == SelectSeq(PackageIds, LAMBDA k : IsKeyOf(map, k))

\* ! isEmpty( selections ) && every( selections ), selections being selectedRates[ boxId ]
\* for every boxId of allRates
hasSelectedRates(rates) ==
    /\ DOMAIN rates.available # {}
    /\ \A boxId \in DOMAIN rates.available : boxId \in DOMAIN rates.values

\* find( rates, r => serviceId === r.service_id ): the first match, Null when none
find(rates, serviceId) ==
    LET matches == {i \in DOMAIN rates : rates[i].service_id = serviceId}
    IN  IF matches = {} THEN Null
        ELSE rates[CHOOSE i \in matches : \A j \in matches : i <= j]

\* round( amount, 2 ) of an amount in cents
round(amount, precision) == IF precision = 2 THEN amount ELSE (amount \div 100) * 100

RECURSIVE TrimStart(_)
TrimStart(text) == IF text # <<>> /\ Head(text) = " " THEN TrimStart(Tail(text)) ELSE text

RECURSIVE TrimEnd(_)
TrimEnd(text) ==
    IF text # <<>> /\ text[Len(text)] = " " THEN TrimEnd(SubSeq(text, 1, Len(text) - 1)) ELSE text

\* title.split( '-' )[0].trim()
CarrierTitle(title) ==
    LET dashes == {i \in DOMAIN title : title[i] = "-"}
        first == IF dashes = {} THEN Len(title) + 1
                 ELSE CHOOSE i \in dashes : \A j \in dashes : i <= j
    IN  TrimEnd(TrimStart(SubSeq(title, 1, first - 1)))

MsgSignatureRequired == "Signature Required"

\* the rate of the signature tier for the selected service, Null when the tier is not
\* quoted or does not hold the service
FoundRateSignatureRequired(selected, quotes) ==
    IF selected.signatureRequired \in DOMAIN quotes
    THEN find(quotes[selected.signatureRequired].rates, selected.serviceId)
    ELSE Null

\* the body of the loop for one package: what it pushes and adds, Null when it adds nothing
PackagePriceMutantDiscountFromCharged(selected, quotes) ==
    LET foundRateSignatureRequired == FoundRateSignatureRequired(selected, quotes)
        foundRate == find(quotes["default"].rates, selected.serviceId)
    IN  IF foundRate = Null THEN Null
        ELSE LET signed == foundRateSignatureRequired # Null
                 rateTotal == IF signed THEN foundRateSignatureRequired.rate ELSE foundRate.rate
             IN  [price |-> [title |-> foundRate.title,
                             retailRate |-> foundRate.retail_rate,
                             rateWithDiscount |-> foundRate.rate,
                             addons |-> IF signed
                                        THEN <<[title |-> MsgSignatureRequired,
                                                rate |-> foundRateSignatureRequired.rate - foundRate.rate]>>
                                        ELSE <<>>,
                             carrierId |-> foundRate.carrier_id,
                             carrierTitle |-> CarrierTitle(foundRate.title)],
                  discount |-> round(foundRate.retail_rate - rateTotal, 2),
                  total |-> rateTotal]

PackagePriceMutantBaseTotal(selected, quotes) ==
    LET foundRateSignatureRequired == FoundRateSignatureRequired(selected, quotes)
        foundRate == find(quotes["default"].rates, selected.serviceId)
    IN  IF foundRate = Null THEN Null
        ELSE LET signed == foundRateSignatureRequired # Null
             IN  [price |-> [title |-> foundRate.title,
                             retailRate |-> foundRate.retail_rate,
                             rateWithDiscount |-> foundRate.rate,
                             addons |-> IF signed
                                        THEN <<[title |-> MsgSignatureRequired,
                                                rate |-> foundRateSignatureRequired.rate - foundRate.rate]>>
                                        ELSE <<>>,
                             carrierId |-> foundRate.carrier_id,
                             carrierTitle |-> CarrierTitle(foundRate.title)],
                  discount |-> round(foundRate.retail_rate - foundRate.rate, 2),
                  total |-> foundRate.rate]

PackagePrice(selected, quotes) ==
    LET foundRateSignatureRequired == FoundRateSignatureRequired(selected, quotes)
        foundRate == find(quotes["default"].rates, selected.serviceId)
    IN  IF foundRate = Null THEN Null
        ELSE LET signed == foundRateSignatureRequired # Null
                 rateDiscount == foundRate.retail_rate - foundRate.rate
                 rateTotal == IF signed THEN foundRateSignatureRequired.rate ELSE foundRate.rate
             IN  [price |-> [title |-> foundRate.title,
                             retailRate |-> foundRate.retail_rate,
                             rateWithDiscount |-> foundRate.rate,
                             addons |-> IF signed
                                        THEN <<[title |-> MsgSignatureRequired,
                                                rate |-> foundRateSignatureRequired.rate - foundRate.rate]>>
                                        ELSE <<>>,
                             carrierId |-> foundRate.carrier_id,
                             carrierTitle |-> CarrierTitle(foundRate.title)],
                  discount |-> round(rateDiscount, 2),
                  total |-> rateTotal]

\* the for..in loop over selectedRates, from the accumulator acc = [prices, discount, total]
RECURSIVE PriceLoop(_, _, _)
PriceLoop(packageIds, rates, acc) ==
    IF packageIds = <<>> THEN acc
    ELSE LET packageId == Head(packageIds)
             line == IF packageId \in DOMAIN rates.available
                     THEN PackagePrice(rates.values[packageId], rates.available[packageId])
                     ELSE Null
         IN  PriceLoop(Tail(packageIds), rates,
                       IF line = Null THEN acc
                       ELSE [prices |-> Append(acc.prices, line.price),
                             discount |-> acc.discount + line.discount,
                             total |-> acc.total + line.total])

getTotalPriceBreakdown(state) ==
    LET form == getForm(state)
    IN  IF form = Null THEN Null
        ELSE LET result == PriceLoop(KeysInOrder(form.rates.values), form.rates,
                                     [prices |-> <<>>, discount |-> 0, total |-> 0])
             IN  IF result.prices # <<>> THEN result ELSE Null

isCustomsFormRequiredMutantOriginOnly(state) ==
    LET form == getForm(state)
    IN  IF isEmptyForm(form) THEN FALSE
        ELSE LET origin == getAddressValues(form.origin)
                 destination == getAddressValues(form.destination)
             IN  IF origin.country = "US" /\ origin.state \in US_MILITARY_STATES THEN TRUE
                 ELSE origin.country # destination.country

isCustomsFormRequired(state) ==
    LET form == getForm(state)
    IN  IF isEmptyForm(form) THEN FALSE
        ELSE LET origin == getAddressValues(form.origin)
                 destination == getAddressValues(form.destination)
             IN  IF origin.country = "US" /\ origin.state \in US_MILITARY_STATES THEN TRUE
                 ELSE IF destination.country = "US" /\ destination.state \in US_MILITARY_STATES THEN TRUE
                 ELSE origin.country # destination.country

\* what getFormErrors returns as {}: no step has an error leaf
NoFormErrors ==
    [origin |-> EmptyMap, destination |-> EmptyMap, packages |-> EmptyMap,
     customs |-> [packages |-> EmptyMap, items |-> EmptyMap],
     rates |-> EmptyMap, sidebar |-> EmptyMap]

\* the selector function handed to createSelector
computeFormErrors(state) ==
    IF ~isLoaded(state) THEN NoFormErrors
    ELSE LET form == state.shippingLabel.form
             paperSize == state.shippingLabel.paperSize
         IN  IF isEmptyForm(form) THEN NoFormErrors
             ELSE LET destinationCountryCode == form.destination.values.country
                      destinationCountryName == getCountryName(state.locations, destinationCountryCode)
                      shouldValidateOriginPhone == isCustomsFormRequired(state)
                      shouldValidateDestinationPhone == shouldValidateOriginPhone
                  IN  [origin |-> getAddressErrors(form.origin, state.locations,
                                     [f \in {"originPhone"} |-> shouldValidateOriginPhone]),
                       destination |-> getAddressErrors(form.destination, state.locations,
                                     [f \in {"destinationPhone"} |-> shouldValidateDestinationPhone]),
                       packages |-> getPackagesErrors(form.packages.selected),
                       customs |-> getCustomsErrors(form.packages.selected, form.customs,
                                                    destinationCountryCode, destinationCountryName),
                       rates |-> getRatesErrors(form.rates),
                       sidebar |-> getSidebarErrors(paperSize)]

\* createSelector: the cached value is returned while the dependant, the shipping-label
\* subtree, keeps its identity; every write to that subtree clears formErrorsCache.valid
getFormErrors(state) ==
    IF state.formErrorsCache.valid THEN state.formErrorsCache.value ELSE computeFormErrors(state)

\* the selector function isAddressUsable hands to createSelector
computeAddressUsable(appState, group) ==
    LET form == appState.shippingLabel.form
        validatePhone == group = "origin" /\ isCustomsFormRequired(appState)
        toValidate == IF validatePhone THEN [f \in {"originPhone"} |-> validatePhone] ELSE EmptyMap
        errors == getRawAddressErrors(appState.locations, form[group], toValidate)
    IN  DOMAIN errors = {}

\* createSelector: the cached value is returned while the dependant, form[ group ], keeps
\* its identity; a write that replaces form[ group ] clears usableCache[ group ]
isAddressUsable(appState, group) ==
    IF appState.usableCache[group].valid THEN appState.usableCache[group].value
    ELSE computeAddressUsable(appState, group)

isCustomsFormStepSubmittedMutantTariffOnly(state) ==
    LET form == getForm(state)
    IN  IF form = Null THEN FALSE
        ELSE \A productId \in usedProductIds(form.packages.selected) :
                form.customs.items[productId].tariffNumber # Undefined

isCustomsFormStepSubmitted(state) ==
    LET form == getForm(state)
    IN  IF form = Null THEN FALSE
        ELSE ~ \E productId \in usedProductIds(form.packages.selected) :
                \/ form.customs.items[productId].tariffNumber = Undefined
                \/ IsTrue(form.customs.ignoreWeightValidation, productId)
                \/ IsTrue(form.customs.ignoreValueValidation, productId)

\* the condition of an address step of getFirstErroneousStep
AddressStepFails(address, errors) ==
    \/ ~address.isNormalized
    \/ address.values # address.normalized
    \/ hasNonEmptyLeaves(errors)

CustomsStepFailsMutantNoGuard(state, errors) ==
    \/ hasNonEmptyLeavesCustoms(errors.customs)
    \/ ~isCustomsFormStepSubmitted(state)

\* the condition of the customs step of getFirstErroneousStep
CustomsStepFails(state, errors) ==
    /\ isCustomsFormRequired(state)
    /\ \/ hasNonEmptyLeavesCustoms(errors.customs)
       \/ ~isCustomsFormStepSubmitted(state)

NoStep == "null"

getFirstErroneousStepMutantPackagesFirst(state) ==
    LET form == getForm(state)
        errors == getFormErrors(state)
    IN  IF form = Null THEN NoStep
        ELSE IF hasNonEmptyLeavesNested(errors.packages) THEN "packages"
        ELSE IF AddressStepFails(form.origin, errors.origin) THEN "origin"
        ELSE IF AddressStepFails(form.destination, errors.destination) THEN "destination"
        ELSE IF CustomsStepFails(state, errors) THEN "customs"
        ELSE IF hasNonEmptyLeavesNested(errors.rates) THEN "rates"
        ELSE NoStep

getFirstErroneousStep(state) ==
    LET form == getForm(state)
        errors == getFormErrors(state)
    IN  IF form = Null THEN NoStep
        ELSE IF AddressStepFails(form.origin, errors.origin) THEN "origin"
        ELSE IF AddressStepFails(form.destination, errors.destination) THEN "destination"
        ELSE IF hasNonEmptyLeavesNested(errors.packages) THEN "packages"
        ELSE IF CustomsStepFails(state, errors) THEN "customs"
        ELSE IF hasNonEmptyLeavesNested(errors.rates) THEN "rates"
        ELSE NoStep

canPurchaseMutantIgnoresRetrieval(state) ==
    LET form == getForm(state)
    IN  /\ ~isEmptyForm(form)
        /\ getFirstErroneousStep(state) = NoStep
        /\ ~form.origin.normalizationInProgress
        /\ ~form.destination.normalizationInProgress
        /\ DOMAIN form.rates.available # {}

canPurchase(state) ==
    LET form == getForm(state)
    IN  /\ ~isEmptyForm(form)
        /\ getFirstErroneousStep(state) = NoStep
        /\ ~form.origin.normalizationInProgress
        /\ ~form.destination.normalizationInProgress
        /\ ~form.rates.retrievalInProgress
        /\ DOMAIN form.rates.available # {}

(***************************************************************************)
(* Inputs of the address validator                                         *)
(***************************************************************************)
MaxPhoneDigits == 11

PhoneSamples ==
    {Rep("5", n) : n \in {0} \cup (MaxPhoneDigits - 2)..MaxPhoneDigits}
    \cup {<<"1">> \o Rep("5", MaxPhoneDigits - 1)}
    \cup {<<"(", "5", "5", "5", ")", " ">> \o Rep("5", 3) \o <<"-">> \o Rep("5", MaxPhoneDigits - 7)}

PostcodeSamples ==
    {<<>>, Rep("9", 5), Rep("9", 5) \o <<"-">> \o Rep("9", 3), Rep("9", 5) \o <<"-">> \o Rep("9", 4)}

AddressValueSamples ==
    [name : {"", "Ada"}, company : {"", "Acme"}, address : {"", "1 Main St"},
     city : {"", "Springfield"}, postcode : PostcodeSamples, country : {"US", "HK"},
     state : {"", "NY"}, phone : PhoneSamples]

NormalizedSample ==
    [name |-> "Ada", company |-> "Acme", address |-> "1 MAIN ST", city |-> "SPRINGFIELD",
     postcode |-> Rep("9", 5), country |-> "US", state |-> "NY", phone |-> <<>>]

FieldErrorSamples == {Null, EmptyMap, [f \in {"state", "postcode"} |-> "Invalid"]}

IgnoreValidationSamples ==
    {Null,
     [f \in {"state", "phone", "address"} |-> TRUE],
     [f \in {"state", "postcode"} |-> f = "postcode"]}

AddressSamples ==
    [values : AddressValueSamples, isNormalized : BOOLEAN, isUnverifiable : BOOLEAN,
     normalized : {Null, NormalizedSample}, ignoreValidation : IgnoreValidationSamples,
     fieldErrors : FieldErrorSamples, normalizationInProgress : {FALSE}]

FlagSamples ==
    {EmptyMap, [f \in {"originPhone"} |-> TRUE], [f \in {"destinationPhone"} |-> TRUE],
     [f \in {"originPhone", "destinationPhone"} |-> TRUE],
     [f \in {"originPhone"} |-> FALSE]}

CountryNames == [c \in {"US", "CA", "GB", "IR"} |->
                    IF c = "US" THEN "United States"
                    ELSE IF c = "CA" THEN "Canada"
                    ELSE IF c = "GB" THEN "United Kingdom"
                    ELSE "Iran"]

LoadedLocations == [states |-> {"US", "CA"}, names |-> CountryNames]

\* before the locations request completes
NoLocations == [states |-> {}, names |-> EmptyMap]

LocationSamples == {LoadedLocations}

(***************************************************************************)
(* The address validator applied to an address record                      *)
(***************************************************************************)
IdleAddress ==
    /\ addressData = Null
    /\ fieldsToValidate = EmptyMap
    /\ addressCall = "none"
    /\ addressErrors = Null

IdleCustoms ==
    /\ customsArgs = Null
    /\ customsErrors = Null

IdleRates ==
    /\ ratesArgs = Null
    /\ ratesCall = "none"
    /\ ratesErrors = Null
    /\ priceBreakdown = Null

NoCache == [valid |-> FALSE, value |-> NoFormErrors]

Groups == {"origin", "destination"}

NoUsableEntry == [valid |-> FALSE, value |-> FALSE]

NoUsableCache == [group \in Groups |-> NoUsableEntry]

NoUsableResult == [group |-> "", value |-> FALSE]

IdleStore ==
    /\ shippingLabel = [loaded |-> FALSE, form |-> Null, paperSize |-> ""]
    /\ formErrorsCache = NoCache
    /\ usableCache = NoUsableCache
    /\ gateCall = "none"
    /\ stepResult = ""
    /\ purchaseResult = FALSE
    /\ requiredResult = FALSE
    /\ usableResult = NoUsableResult

InitAddress ==
    /\ locations \in LocationSamples
    /\ addressData \in AddressSamples
    /\ fieldsToValidate \in FlagSamples
    /\ addressCall = "none"
    /\ addressErrors = Null
    /\ IdleCustoms
    /\ IdleRates
    /\ IdleStore

CallGetRawAddressErrors ==
    /\ addressCall = "none"
    /\ addressCall' = "raw"
    /\ addressErrors' = getRawAddressErrors(locations, addressData, fieldsToValidate)
    /\ UNCHANGED <<locations, addressData, fieldsToValidate, customsVars, ratesVars, storeVars>>

CallGetAddressErrors ==
    /\ addressCall = "none"
    /\ addressCall' = "full"
    /\ addressErrors' = getAddressErrors(addressData, locations, fieldsToValidate)
    /\ UNCHANGED <<locations, addressData, fieldsToValidate, customsVars, ratesVars, storeVars>>

NextAddress == CallGetRawAddressErrors \/ CallGetAddressErrors

SpecAddress == InitAddress /\ [][NextAddress]_vars

(***************************************************************************)
(* Inputs of getCustomsErrors                                              *)
(***************************************************************************)
MaxQuantity == 2

ProductIds == {11, 12}

Item(id, q) == [product_id |-> id, quantity |-> q]

ItemsSamples ==
    {<<Item(id, q)>> : id \in ProductIds, q \in 1..MaxQuantity}
    \cup {<<Item(11, q), Item(12, 1)>> : q \in 1..MaxQuantity}

ValidItn == AesPrefix \o Rep("7", 14)

Package(items, itn, contentsType, restrictionType) ==
    [box_id |-> "small_flat_box", items |-> items, weight |-> 5, length |-> 10, width |-> 8,
     height |-> 4, contentsType |-> contentsType, contentsExplanation |-> "",
     restrictionType |-> restrictionType, restrictionComments |-> "", itn |-> itn]

FirstPackageSamples ==
    {Package(items, itn, contentsType, "none") :
        items \in ItemsSamples, itn \in {<<>>, ValidItn}, contentsType \in {"merchandise", "other"}}

SecondPackageSamples ==
    {Package(items, itn, "merchandise", restrictionType) :
        items \in ItemsSamples, itn \in {<<>>, <<"X", "1">>}, restrictionType \in {"none", "other"}}

PackagesSamples ==
    {[p \in {"pk1"} |-> a] : a \in FirstPackageSamples}
    \cup {[p \in {"pk1", "pk2"} |-> IF p = "pk1" THEN a ELSE b] :
            a \in {x \in FirstPackageSamples : x.contentsType = "merchandise"},
            b \in {x \in SecondPackageSamples : x.restrictionType = "none" \/ x.itn = <<>>}}

CustomsItem(value, tariffNumber) ==
    [description |-> "Shirt", weight |-> Number(1), value |-> value, tariffNumber |-> tariffNumber]

CustomsSamples ==
    {[items |-> [id \in ProductIds |-> IF id = 11 THEN CustomsItem(v1, t1) ELSE CustomsItem(v2, t2)],
      ignoreWeightValidation |-> EmptyMap,
      ignoreValueValidation |-> EmptyMap] :
        v1 \in {Number(1200), Number(1250), Number(1500), Undef},
        t1 \in {"123456", "1234"},
        v2 \in {Number(1200), Number(1500), Empty},
        t2 \in {"123456", "654321", Undefined}}

DestinationSamples == {"CA", "GB", "IR"}

\* declarations that vary what the user entered for product 11; product 12 is complete
ItemFieldSamples ==
    {[items |-> [id \in ProductIds |->
                    IF id = 11
                    THEN [description |-> text[1], weight |-> weight, value |-> value,
                          tariffNumber |-> text[2]]
                    ELSE CustomsItem(Number(20), "654321")],
      ignoreWeightValidation |-> IF ignoreWeight THEN [id \in {11} |-> TRUE] ELSE EmptyMap,
      ignoreValueValidation |-> IF ignoreValue THEN [id \in {11} |-> TRUE] ELSE EmptyMap] :
        text \in {<<Undefined, "1234">>, <<"", Undefined>>, <<"ab", "123456">>, <<"Shirt", "">>},
        weight \in {Undef, Empty, Text, Number(0), Number(1)},
        value \in {Undef, Text, Number(0), Number(20)},
        ignoreWeight \in BOOLEAN, ignoreValue \in BOOLEAN}

ItemFieldPackagesSamples ==
    {[p \in {"pk1"} |-> Package(items, <<>>, "merchandise", "none")] : items \in ItemsSamples}

CustomsArgsSamples ==
    [packages : PackagesSamples, customs : CustomsSamples,
     destinationCountryCode : DestinationSamples]
    \cup [packages : ItemFieldPackagesSamples, customs : ItemFieldSamples,
          destinationCountryCode : {"GB"}]

(***************************************************************************)
(* getCustomsErrors applied to a package set and a customs declaration     *)
(***************************************************************************)
InitCustoms ==
    /\ locations \in LocationSamples
    /\ customsArgs \in CustomsArgsSamples
    /\ customsErrors = Null
    /\ IdleAddress
    /\ IdleRates
    /\ IdleStore

CallGetCustomsErrors ==
    /\ customsErrors = Null
    /\ customsErrors' = getCustomsErrors(customsArgs.packages, customsArgs.customs,
                                         customsArgs.destinationCountryCode,
                                         CountryNames[customsArgs.destinationCountryCode])
    /\ UNCHANGED <<locations, customsArgs, addressVars, ratesVars, storeVars>>

\* the user enters or clears the transaction number of a package: the errors are derived again
UpdateItn ==
    /\ customsErrors # Null
    /\ \E p \in DOMAIN customsArgs.packages : \E itn \in {<<>>, ValidItn} :
          /\ customsArgs.packages[p].itn # itn
          /\ customsArgs' = [customsArgs EXCEPT !.packages[p].itn = itn]
    /\ customsErrors' = Null
    /\ UNCHANGED <<locations, addressVars, ratesVars, storeVars>>

NextCustoms == CallGetCustomsErrors \/ UpdateItn

SpecCustoms == InitCustoms /\ [][NextCustoms]_vars

(***************************************************************************)
(* Inputs of the rates selectors                                           *)
(***************************************************************************)
\* "USPS - Priority Mail"
PriorityTitle ==
    <<"U", "S", "P", "S", " ", "-", " ", "P", "r", "i", "o", "r", "i", "t", "y", " ", "M", "a", "i", "l">>

PriorityRate ==
    [service_id |-> "usps_priority", rate |-> 595, retail_rate |-> 700,
     title |-> PriorityTitle, carrier_id |-> "usps"]

Quote(rates, errors) == [k \in {"default"} |-> [rates |-> rates, errors |-> errors]]

Selection(serviceId) == [serviceId |-> serviceId, signatureRequired |-> ""]

\* the same service with signature on delivery
PrioritySigned == [PriorityRate EXCEPT !.rate = 845, !.retail_rate = 960]

\* "DHL Express": a title without a dash, sold at the retail rate
ExpressRate ==
    [service_id |-> "dhl_express", rate |-> 2635, retail_rate |-> 2635,
     title |-> <<"D", "H", "L", " ", "E", "x", "p", "r", "e", "s", "s">>, carrier_id |-> "dhlexpress"]

ExpressSigned == [ExpressRate EXCEPT !.rate = 3020, !.retail_rate = 3020]

ProviderError(userMessage, message) == [userMessage |-> userMessage, message |-> message]

\* what the server quoted for one package
QuoteSamples ==
    {Quote(<<PriorityRate>>, <<>>),
     Quote(<<>>, <<>>),
     Quote(<<>>, <<ProviderError("", "Carrier unavailable")>>),
     Quote(<<>>, <<ProviderError("", "")>>),
     Quote(<<PriorityRate>>, <<ProviderError("", ""), ProviderError("Try later", "E42")>>),
     [k \in {"default", "signature_required"} |->
        IF k = "default" THEN [rates |-> <<ExpressRate, PriorityRate>>, errors |-> <<>>]
        ELSE [rates |-> <<PrioritySigned>>]],
     [k \in {"default", "signature_required"} |->
        IF k = "default" THEN [rates |-> <<PriorityRate>>, errors |-> <<>>]
        ELSE [rates |-> <<ExpressSigned>>]]}

\* what the user picked for one package
SelectionSamples ==
    [serviceId : {"", "usps_priority"}, signatureRequired : {"", "signature_required"}]
    \cup {[serviceId |-> "dhl_express", signatureRequired |-> "signature_required"],
          [serviceId |-> "usps_priority", signatureRequired |-> "adult_signature_required"]}

MapsOver(keys, range) == UNION {[ks -> range] : ks \in SUBSET keys}

RatesSamples ==
    [values : MapsOver({"pk1", "pk2"}, SelectionSamples),
     available : MapsOver({"pk1", "pk2"}, QuoteSamples),
     retrievalInProgress : {FALSE}]

(***************************************************************************)
(* The rates selectors applied to a rates subtree                          *)
(***************************************************************************)
\* the store the rates selectors read: no form when ratesArgs is Null
RatesState ==
    [shippingLabel |-> [loaded |-> ratesArgs # Null,
                        form |-> IF ratesArgs = Null THEN Null ELSE [rates |-> ratesArgs],
                        paperSize |-> "letter"]]

InitRates ==
    /\ locations \in LocationSamples
    /\ ratesArgs \in RatesSamples \cup {Null}
    /\ ratesCall = "none"
    /\ ratesErrors = Null
    /\ priceBreakdown = Null
    /\ IdleAddress
    /\ IdleCustoms
    /\ IdleStore

\* getFormErrors hands form.rates to getRatesErrors once it has found a form
CallGetRatesErrors ==
    /\ ratesCall = "none"
    /\ ratesArgs # Null
    /\ ratesCall' = "errors"
    /\ ratesErrors' = getRatesErrors(ratesArgs)
    /\ UNCHANGED <<locations, ratesArgs, priceBreakdown, addressVars, customsVars, storeVars>>

CallGetTotalPriceBreakdown ==
    /\ ratesCall = "none"
    /\ ratesCall' = "breakdown"
    /\ priceBreakdown' = getTotalPriceBreakdown(RatesState)
    /\ UNCHANGED <<locations, ratesArgs, ratesErrors, addressVars, customsVars, storeVars>>

NextRates == CallGetRatesErrors \/ CallGetTotalPriceBreakdown

SpecRates == InitRates /\ [][NextRates]_vars

(***************************************************************************)
(* The store: form states and the writes that reach them                   *)
(***************************************************************************)
GateValues(country, state, city) ==
    [name |-> "Ada", company |-> "", address |-> "1 Main St", city |-> city,
     postcode |-> Rep("9", 5), country |-> country, state |-> state, phone |-> Rep("5", 10)]

\* an address the server has not normalized yet
Unnormalized(values) ==
    [values |-> values, isNormalized |-> FALSE, isUnverifiable |-> FALSE, normalized |-> Null,
     ignoreValidation |-> Null, fieldErrors |-> Null, normalizationInProgress |-> FALSE]

\* an address whose values are the normalized ones
Normalized(values) ==
    [Unnormalized(values) EXCEPT !.isNormalized = TRUE, !.normalized = values]

\* a normalized address the user has not yet accepted the corrected form of
Corrected(values) ==
    [Unnormalized(values) EXCEPT !.isNormalized = TRUE,
                                 !.normalized = [values EXCEPT !.address = "1 MAIN ST"]]

InProgress(address) == [address EXCEPT !.normalizationInProgress = TRUE]

OriginSamples ==
    {Normalized(GateValues("US", state, "Springfield")) : state \in {"NY", "AA", ""}}
    \cup {Normalized(GateValues("US", "NY", "")),
          Unnormalized(GateValues("US", "NY", "Springfield")),
          Corrected(GateValues("US", "NY", "Springfield")),
          InProgress(Normalized(GateValues("US", "NY", "Springfield")))}

GateDestinationSamples ==
    {Normalized(GateValues(country, "NY", city)) : country \in {"US", "CA"}, city \in {"", "Springfield"}}
    \cup {Unnormalized(GateValues("CA", "NY", "Springfield")),
          InProgress(Normalized(GateValues("US", "NY", "Springfield")))}

GatePackagesSamples ==
    {[p \in {"pk1"} |-> [Package(<<Item(11, 1)>>, <<>>, "merchandise", "none") EXCEPT !.box_id = box]] :
        box \in {"small_flat_box", "not_selected"}}
    \cup {[p \in {"pk1", "pk2"} |-> Package(<<Item(IF p = "pk1" THEN 11 ELSE 12, 1)>>, <<>>, "merchandise", "none")]}

\* what the user has reviewed of product 1: its tariff number and its ignore flags
GateCustomsSamples ==
    {[items |-> [id \in ProductIds |->
                    IF id = 11
                    THEN [description |-> "Shirt",
                          weight |-> IF ignore = "weight" THEN Undef ELSE Number(1),
                          value |-> IF ignore = "value" THEN Undef ELSE Number(20),
                          tariffNumber |-> tariffNumber]
                    ELSE CustomsItem(Number(20), "654321")],
      ignoreWeightValidation |-> IF ignore = "weight" THEN [id \in {11} |-> TRUE] ELSE EmptyMap,
      ignoreValueValidation |-> IF ignore = "value" THEN [id \in {11} |-> TRUE] ELSE EmptyMap] :
        tariffNumber \in {Undefined, "", "123456", "1234"},
        ignore \in {"none", "weight", "value"}}

\* rates.values has an entry for every package of the form; a package the server has not
\* quoted yet is absent from rates.available
GateRatesSamples ==
    {[values |-> [p \in {"pk1"} |-> Selection("")], available |-> EmptyMap],
     [values |-> [p \in {"pk1"} |-> Selection("usps_priority")],
      available |-> [p \in {"pk1"} |-> Quote(<<PriorityRate>>, <<>>)]],
     [values |-> [p \in {"pk1"} |-> Selection("")],
      available |-> [p \in {"pk1"} |-> Quote(<<PriorityRate>>, <<>>)]],
     [values |-> [p \in {"pk1"} |-> Selection("usps_priority")],
      available |-> [p \in {"pk1"} |->
                        Quote(<<>>, <<[userMessage |-> "", message |-> "Carrier unavailable"]>>)]],
     [values |-> [p \in {"pk1", "pk2"} |-> Selection("usps_priority")],
      available |-> [p \in {"pk1", "pk2"} |-> Quote(<<PriorityRate>>, <<>>)]],
     [values |-> [p \in {"pk1", "pk2"} |-> Selection(IF p = "pk1" THEN "usps_priority" ELSE "")],
      available |-> [p \in {"pk1", "pk2"} |-> Quote(<<PriorityRate>>, <<>>)]]}

\* the rates subtree after the package set changed: the selections and quotes of the
\* packages that remain are kept, a new package has no selection and is not quoted yet
RatesFor(packages, rates) ==
    [rates EXCEPT
        !.values = [p \in DOMAIN packages |->
                        IF p \in DOMAIN rates.values THEN rates.values[p] ELSE Selection("")],
        !.available = [p \in DOMAIN rates.available \cap DOMAIN packages |-> rates.available[p]]]

\* the form of an order as first loaded: a domestic shipment, nothing quoted yet
LoadedForm ==
    [origin |-> Normalized(GateValues("US", "NY", "Springfield")),
     destination |-> Normalized(GateValues("US", "NY", "Springfield")),
     packages |-> [selected |-> CHOOSE p \in GatePackagesSamples :
                                    DOMAIN p = {"pk1"} /\ p["pk1"].box_id # "not_selected"],
     customs |-> CHOOSE c \in GateCustomsSamples :
                    c.items[11].tariffNumber = Undefined /\ c.ignoreWeightValidation = EmptyMap
                    /\ c.ignoreValueValidation = EmptyMap,
     rates |-> [values |-> [p \in {"pk1"} |-> Selection("")], available |-> EmptyMap,
                retrievalInProgress |-> FALSE]]

State ==
    [shippingLabel |-> shippingLabel, locations |-> locations,
     formErrorsCache |-> formErrorsCache, usableCache |-> usableCache]

Init ==
    /\ shippingLabel = [loaded |-> FALSE, form |-> Null, paperSize |-> ""]
    /\ locations = NoLocations
    /\ formErrorsCache = NoCache
    /\ usableCache = NoUsableCache
    /\ gateCall = "none"
    /\ stepResult = ""
    /\ purchaseResult = FALSE
    /\ requiredResult = FALSE
    /\ usableResult = NoUsableResult
    /\ IdleAddress
    /\ IdleCustoms
    /\ IdleRates

\* a write to the shipping-label subtree: a new subtree object, so the cache keyed on it
\* is dropped; the results read from the old state no longer describe the store
WriteShippingLabel(next) ==
    /\ next # shippingLabel
    /\ shippingLabel' = next
    /\ formErrorsCache' = NoCache
    /\ usableCache' = [group \in Groups |->
                          IF /\ shippingLabel.form # Null
                             /\ next.form # Null
                             /\ next.form[group] = shippingLabel.form[group]
                          THEN usableCache[group]
                          ELSE NoUsableEntry]
    /\ gateCall' = "none"
    /\ stepResult' = ""
    /\ purchaseResult' = FALSE
    /\ requiredResult' = FALSE
    /\ usableResult' = NoUsableResult
    /\ UNCHANGED <<locations, addressVars, customsVars, ratesVars>>

LoadShippingLabel ==
    /\ shippingLabel.form = Null
    /\ WriteShippingLabel([loaded |-> TRUE, form |-> LoadedForm, paperSize |-> "letter"])

UpdateOrigin ==
    /\ shippingLabel.form # Null
    /\ \E a \in OriginSamples : WriteShippingLabel([shippingLabel EXCEPT !.form.origin = a])

UpdateDestination ==
    /\ shippingLabel.form # Null
    /\ \E a \in GateDestinationSamples : WriteShippingLabel([shippingLabel EXCEPT !.form.destination = a])

UpdatePackages ==
    /\ shippingLabel.form # Null
    /\ \E p \in GatePackagesSamples :
          WriteShippingLabel([shippingLabel EXCEPT !.form.packages.selected = p,
                                                   !.form.rates = RatesFor(p, shippingLabel.form.rates)])

UpdateCustoms ==
    /\ shippingLabel.form # Null
    /\ \E c \in GateCustomsSamples : WriteShippingLabel([shippingLabel EXCEPT !.form.customs = c])

UpdateRates ==
    /\ shippingLabel.form # Null
    /\ \E r \in GateRatesSamples :
          /\ DOMAIN r.values = DOMAIN shippingLabel.form.packages.selected
          /\ WriteShippingLabel([shippingLabel EXCEPT !.form.rates.values = r.values,
                                                   !.form.rates.available = r.available])

SetRetrievalInProgress ==
    /\ shippingLabel.form # Null
    /\ \E b \in BOOLEAN : WriteShippingLabel([shippingLabel EXCEPT !.form.rates.retrievalInProgress = b])

\* the locations request completes: the shipping-label subtree is the same object
LoadLocations ==
    /\ locations = NoLocations
    /\ locations' = LoadedLocations
    /\ gateCall' = "none"
    /\ stepResult' = ""
    /\ purchaseResult' = FALSE
    /\ requiredResult' = FALSE
    /\ usableResult' = NoUsableResult
    /\ UNCHANGED <<shippingLabel, formErrorsCache, usableCache, addressVars, customsVars, ratesVars>>

\* getFirstErroneousStep( state, orderId, siteId ); its getFormErrors call fills the cache
CallGetFirstErroneousStep ==
    /\ gateCall = "none"
    /\ gateCall' = "step"
    /\ stepResult' = getFirstErroneousStep(State)
    /\ formErrorsCache' = IF getForm(State) = Null THEN formErrorsCache
                          ELSE [valid |-> TRUE, value |-> getFormErrors(State)]
    /\ UNCHANGED <<shippingLabel, locations, usableCache, purchaseResult, requiredResult, usableResult,
                 addressVars, customsVars, ratesVars>>

\* canPurchase( state, orderId, siteId ); its dependants evaluate getFirstErroneousStep
CallCanPurchase ==
    /\ gateCall = "none"
    /\ gateCall' = "purchase"
    /\ stepResult' = getFirstErroneousStep(State)
    /\ purchaseResult' = canPurchase(State)
    /\ formErrorsCache' = IF getForm(State) = Null THEN formErrorsCache
                          ELSE [valid |-> TRUE, value |-> getFormErrors(State)]
    /\ UNCHANGED <<shippingLabel, locations, usableCache, requiredResult, usableResult,
                 addressVars, customsVars, ratesVars>>

Next ==
    \/ LoadShippingLabel
    \/ UpdateOrigin
    \/ UpdateDestination
    \/ UpdatePackages
    \/ UpdateCustoms
    \/ UpdateRates
    \/ SetRetrievalInProgress
    \/ LoadLocations
    \/ CallGetFirstErroneousStep
    \/ CallCanPurchase

Spec == Init /\ [][Next]_vars

(***************************************************************************)
(* isCustomsFormRequired applied to a store snapshot                       *)
(***************************************************************************)
RequiredFormSamples ==
    {[LoadedForm EXCEPT !.origin = Unnormalized(GateValues(oc, os, "Springfield")),
                        !.destination = Unnormalized(GateValues(dc, ds, "Springfield"))] :
        oc \in {"US", "GU", "CA"}, os \in {"", "NY", "AA", "AE", "AP"},
        dc \in {"US", "GU", "CA"}, ds \in {"", "NY", "AA", "AE", "AP"}}

InitRequired ==
    /\ locations \in LocationSamples
    /\ shippingLabel \in
          {[loaded |-> FALSE, form |-> Null, paperSize |-> ""]}
          \cup {[loaded |-> TRUE, form |-> form, paperSize |-> "letter"] : form \in RequiredFormSamples}
    /\ formErrorsCache = NoCache
    /\ usableCache = NoUsableCache
    /\ gateCall = "none"
    /\ stepResult = ""
    /\ purchaseResult = FALSE
    /\ requiredResult = FALSE
    /\ usableResult = NoUsableResult
    /\ IdleAddress
    /\ IdleCustoms
    /\ IdleRates

\* isCustomsFormRequired( state, orderId, siteId )
CallIsCustomsFormRequired ==
    /\ gateCall = "none"
    /\ gateCall' = "required"
    /\ requiredResult' = isCustomsFormRequired(State)
    /\ UNCHANGED <<shippingLabel, locations, formErrorsCache, usableCache, stepResult, purchaseResult,
                   usableResult, addressVars, customsVars, ratesVars>>

NextRequired == CallIsCustomsFormRequired

SpecRequired == InitRequired /\ [][NextRequired]_vars

(***************************************************************************)
(* The store with every memoized selector: a cache outlives the writes     *)
(* that leave its dependant untouched                                      *)
(***************************************************************************)
\* the user changes the paper size in the sidebar
UpdatePaperSize ==
    /\ shippingLabel.form # Null
    /\ \E size \in {"", "letter", "a4"} : WriteShippingLabel([shippingLabel EXCEPT !.paperSize = size])

\* the user edits the phone field of the origin address: the address is no longer normalized
EditOriginPhone ==
    /\ shippingLabel.form # Null
    /\ \E phone \in {<<>>, Rep("5", 10)} :
          WriteShippingLabel([shippingLabel EXCEPT
              !.form.origin = Unnormalized([shippingLabel.form.origin.values EXCEPT !.phone = phone])])

\* isAddressUsable( appState, orderId, group, siteId ); the result is left in the cache
CallIsAddressUsable ==
    /\ gateCall = "none"
    /\ shippingLabel.form # Null
    /\ \E group \in Groups :
          /\ usableResult' = [group |-> group, value |-> isAddressUsable(State, group)]
          /\ usableCache' = [usableCache EXCEPT
                                ![group] = [valid |-> TRUE, value |-> isAddressUsable(State, group)]]
    /\ gateCall' = "usable"
    /\ UNCHANGED <<shippingLabel, locations, formErrorsCache, stepResult, purchaseResult,
                   requiredResult, addressVars, customsVars, ratesVars>>

NextMemo ==
    \/ LoadShippingLabel
    \/ UpdateOrigin
    \/ UpdateDestination
    \/ UpdatePackages
    \/ UpdateRates
    \/ UpdatePaperSize
    \/ EditOriginPhone
    \/ LoadLocations
    \/ CallGetFirstErroneousStep
    \/ CallCanPurchase
    \/ CallIsCustomsFormRequired
    \/ CallIsAddressUsable

SpecMemo == Init /\ [][NextMemo]_vars

(***************************************************************************)
(* Step gate and purchase gate: properties                                 *)
(***************************************************************************)
Form == shippingLabel.form

\* a gate selector has run on the present store and the store holds a form
GateRan == gateCall # "none" /\ Form # Null

\* the error maps the call read: getFormErrors leaves them in its cache
UsedErrors == formErrorsCache.value

AddressFails(address, errors) ==
    \/ ~address.isNormalized
    \/ address.normalized = Null
    \/ \E f \in DOMAIN address.values : address.values[f] # address.normalized[f]
    \/ \E f \in DOMAIN errors : errors[f] # ""

CustomsRequired ==
    LET origin == Form.origin.values
        destination == Form.destination.values
    IN  \/ origin.country = "US" /\ origin.state \in {"AA", "AE", "AP"}
        \/ destination.country = "US" /\ destination.state \in {"AA", "AE", "AP"}
        \/ origin.country # destination.country

CustomsLeaves ==
    \/ \E p \in DOMAIN UsedErrors.customs.packages :
          \E f \in DOMAIN UsedErrors.customs.packages[p] : UsedErrors.customs.packages[p][f] # ""
    \/ \E id \in DOMAIN UsedErrors.customs.items :
          \E f \in DOMAIN UsedErrors.customs.items[id] : UsedErrors.customs.items[id][f] # ""

UsedProducts ==
    UNION {{Form.packages.selected[p].items[i].product_id : i \in DOMAIN Form.packages.selected[p].items} :
            p \in DOMAIN Form.packages.selected}

\* reviewed as the code has it: a tariff number that is not nil and no ignore flag
Reviewed(id) ==
    /\ Form.customs.items[id].tariffNumber # Undefined
    /\ ~IsTrue(Form.customs.ignoreWeightValidation, id)
    /\ ~IsTrue(Form.customs.ignoreValueValidation, id)

\* reviewed as claimed: a tariff number, or an ignore flag
ReviewedAsClaimed(id) ==
    \/ Form.customs.items[id].tariffNumber # Undefined
    \/ IsTrue(Form.customs.ignoreWeightValidation, id)
    \/ IsTrue(Form.customs.ignoreValueValidation, id)

StepOrder == <<"origin", "destination", "packages", "customs", "rates">>

StepFails(step) ==
    IF step = "origin" THEN AddressFails(Form.origin, UsedErrors.origin)
    ELSE IF step = "destination" THEN AddressFails(Form.destination, UsedErrors.destination)
    ELSE IF step = "packages"
    THEN \E p \in DOMAIN UsedErrors.packages :
            \E f \in DOMAIN UsedErrors.packages[p] : UsedErrors.packages[p][f] # ""
    ELSE IF step = "customs"
    THEN CustomsRequired /\ (CustomsLeaves \/ \E id \in UsedProducts : ~Reviewed(id))
    ELSE \E p \in DOMAIN UsedErrors.rates :
            \E i \in DOMAIN UsedErrors.rates[p] : UsedErrors.rates[p][i] # ""

\* C1: getFirstErroneousStep evaluates origin, destination, packages, customs, rates in
\* that order and returns the first step that fails: it returns S only if S fails and
\* every step before S passes, and null only if no step fails; a form with an origin
\* error and a packages error yields 'origin'.
C1_FirstFailingStepInOrder ==
    GateRan =>
        /\ stepResult \in {StepOrder[i] : i \in DOMAIN StepOrder} \cup {NoStep}
        /\ \A i \in DOMAIN StepOrder :
              stepResult = StepOrder[i] =>
                  /\ StepFails(StepOrder[i])
                  /\ \A j \in 1..(i - 1) : ~StepFails(StepOrder[j])
        /\ stepResult = NoStep => \A i \in DOMAIN StepOrder : ~StepFails(StepOrder[i])
        /\ (StepFails("origin") /\ StepFails("packages")) => stepResult = "origin"

\* an origin whose error map has a leaf (city missing), and a package without a box
C1_Witness ==
    /\ GateRan
    /\ Form.origin.isNormalized /\ Form.origin.values = Form.origin.normalized
    /\ "city" \in DOMAIN UsedErrors.origin
    /\ StepFails("packages")
    /\ stepResult = "origin"

\* C2: canPurchase is true only when a form exists, getFirstErroneousStep is null,
\* neither address is mid-normalization, rate retrieval is not in progress and
\* rates.available holds at least one package quote.
C2_PurchaseGate ==
    (gateCall = "purchase" /\ purchaseResult) =>
        /\ Form # Null
        /\ stepResult = NoStep
        /\ \A i \in DOMAIN StepOrder : ~StepFails(StepOrder[i])
        /\ ~Form.origin.normalizationInProgress
        /\ ~Form.destination.normalizationInProgress
        /\ ~Form.rates.retrievalInProgress
        /\ DOMAIN Form.rates.available # {}

C2_Witness == gateCall = "purchase" /\ purchaseResult

CustomsDecides ==
    /\ GateRan
    /\ CustomsRequired
    /\ ~StepFails("origin") /\ ~StepFails("destination") /\ ~StepFails("packages")
    /\ ~CustomsLeaves

\* C3 as claimed: with customs required, the earlier steps passing and no customs
\* error leaf, the customs step fails exactly when some used product has neither a
\* tariff number nor an ignore flag.
C3_ReviewedByTariffOrIgnoreFlag ==
    CustomsDecides =>
        (stepResult = "customs" <=> \E id \in UsedProducts : ~ReviewedAsClaimed(id))

\* C3 (amended): with customs required, the earlier steps passing and no customs error
\* leaf, the customs step fails exactly when some product referenced by a package has a
\* nil tariff number or is marked in ignoreWeightValidation or ignoreValueValidation: an
\* ignore flag keeps the form at 'customs'.
C3_CustomsStepUntilReviewed ==
    CustomsDecides =>
        (stepResult = "customs" <=> \E id \in UsedProducts : ~Reviewed(id))

\* every used product has a tariff number, one carries an ignore flag: the step is customs
C3_Witness ==
    /\ CustomsDecides
    /\ \A id \in UsedProducts : Form.customs.items[id].tariffNumber = "123456"
                                \/ Form.customs.items[id].tariffNumber = "654321"
    /\ \E id \in UsedProducts : IsTrue(Form.customs.ignoreWeightValidation, id)
    /\ stepResult = "customs"

\* C4: when no customs declaration is required getFirstErroneousStep never returns
\* 'customs', whatever the customs error map holds and whether or not the customs fields
\* were reviewed; with origin, destination and packages passing the rates step decides.
C4_CustomsOnlyWhenRequired ==
    (GateRan /\ ~CustomsRequired) =>
        /\ stepResult # "customs"
        /\ (~StepFails("origin") /\ ~StepFails("destination") /\ ~StepFails("packages")) =>
              stepResult = IF StepFails("rates") THEN "rates" ELSE NoStep

\* a domestic form with a customs error leaf and unreviewed products passes customs
C4_Witness ==
    /\ GateRan /\ ~CustomsRequired
    /\ CustomsLeaves
    /\ \E id \in UsedProducts : ~Reviewed(id)
    /\ ~StepFails("origin") /\ ~StepFails("destination") /\ ~StepFails("packages")
    /\ stepResult = NoStep

(***************************************************************************)
(* Address validation: properties                                          *)
(***************************************************************************)
Ignored(f) == Truthy(addressData.ignoreValidation, f)

BypassWithFieldErrors ==
    /\ addressData.isNormalized \/ addressData.isUnverifiable
    /\ addressData.normalized = Null
    /\ addressData.fieldErrors # Null

BypassNotRecognized ==
    /\ addressData.isNormalized
    /\ addressData.normalized = Null
    /\ addressData.fieldErrors = Null

RuleSetResult ==
    DropIgnored(getRawAddressErrors(locations, addressData, fieldsToValidate),
                addressData.ignoreValidation)

HasNonEmptyEntry(errors) == \E f \in DOMAIN errors : errors[f] # ""

\* C5: for every field f with ignoreValidation[f] truthy, the error map returned by
\* getAddressErrors has no entry for f, on the rule-set path and on the bypass path.
C5_IgnoredNeverReported ==
    addressCall = "full" =>
        \A f \in DOMAIN addressErrors : ~Ignored(f)

\* C6: bypass decision.  (isNormalized or isUnverifiable), no normalized value and
\* fieldErrors present: the result is fieldErrors verbatim.  isNormalized, no normalized
\* value, no fieldErrors: exactly one error, on 'address'.  Every other case (also
\* isUnverifiable alone without fieldErrors): the rule set 1-5 with ignored fields removed.
C6_BypassDecision ==
    addressCall = "full" =>
        /\ BypassWithFieldErrors => addressErrors = addressData.fieldErrors
        /\ BypassNotRecognized =>
              /\ DOMAIN addressErrors = {"address"}
              /\ addressErrors["address"] = MsgNotRecognized
        /\ (~BypassWithFieldErrors /\ ~BypassNotRecognized) => addressErrors = RuleSetResult

C6_Witness ==
    /\ addressCall = "full"
    /\ addressData.isUnverifiable /\ ~addressData.isNormalized
    /\ addressData.normalized = Null /\ addressData.fieldErrors = Null
    /\ "city" \in DOMAIN addressErrors

\* C7: an address with isNormalized = true and no normalized value registers as an
\* error: getAddressErrors returns a map with at least one non-empty entry, whatever
\* fieldErrors holds (absent, empty or populated).
C7_NormalizedWithoutValueIsError ==
    (addressCall = "full" /\ addressData.isNormalized /\ addressData.normalized = Null)
        => HasNonEmptyEntry(addressErrors)

\* C8: with isNormalized = false and isUnverifiable = false the full rule set runs
\* whatever normalized and fieldErrors hold: the result is the raw rule-set result with
\* the ignoreValidation fields removed.
C8_FullRuleSetWhenNotNormalized ==
    (addressCall = "full" /\ ~addressData.isNormalized /\ ~addressData.isUnverifiable)
        => /\ addressErrors = RuleSetResult
           /\ \A f \in requiredFields :
                 (Blank(addressData.values, f) /\ ~Ignored(f)) => f \in DOMAIN addressErrors

C8_Witness ==
    /\ addressCall = "full"
    /\ ~addressData.isNormalized /\ ~addressData.isUnverifiable
    /\ addressData.normalized = Null
    /\ addressData.fieldErrors # Null /\ DOMAIN addressData.fieldErrors # {}
    /\ addressErrors # addressData.fieldErrors
    /\ "city" \in DOMAIN addressErrors

PhoneOf == addressData.values.phone

PhoneErrorIs(msg) == "phone" \in DOMAIN addressErrors /\ addressErrors["phone"] = msg

OriginFlag == IsTrue(fieldsToValidate, "originPhone")

DestinationFlag == IsTrue(fieldsToValidate, "destinationPhone")

\* C9 as claimed: origin flag and empty phone give origin-phone-required; a phone that is
\* present is format-checked for any value of the flags; destination flag and empty phone
\* give destination-phone-required.
C9_PhoneRuleAsClaimed ==
    addressCall = "raw" =>
        /\ (OriginFlag /\ ~DestinationFlag /\ PhoneOf = <<>>) => PhoneErrorIs(MsgOriginPhoneRequired)
        /\ (DestinationFlag /\ PhoneOf = <<>>) => PhoneErrorIs(MsgDestinationPhoneRequired)
        /\ (PhoneOf # <<>> /\ ~PhoneLengthOk(PhoneOf)) => PhoneErrorIs(MsgPhoneFormat)
        /\ (PhoneOf # <<>> /\ PhoneLengthOk(PhoneOf)) => "phone" \notin DOMAIN addressErrors

\* C9 (amended): the format check belongs to the origin rule.  Empty phone: the
\* destination flag gives destination-phone-required, else the origin flag gives
\* origin-phone-required, else no phone error.  Phone present: a format error exactly
\* when originPhone is true and the phone, stripped of non-digits and of one leading
\* '1', does not have exactly 10 digits; with originPhone not true there is no phone error.
C9_PhoneRule ==
    addressCall = "raw" =>
        /\ (DestinationFlag /\ PhoneOf = <<>>) => PhoneErrorIs(MsgDestinationPhoneRequired)
        /\ (OriginFlag /\ ~DestinationFlag /\ PhoneOf = <<>>) => PhoneErrorIs(MsgOriginPhoneRequired)
        /\ (~OriginFlag /\ ~DestinationFlag /\ PhoneOf = <<>>) => "phone" \notin DOMAIN addressErrors
        /\ (OriginFlag /\ PhoneOf # <<>> /\ Len(PhoneDigits(PhoneOf)) # 10) => PhoneErrorIs(MsgPhoneFormat)
        /\ (OriginFlag /\ PhoneOf # <<>> /\ Len(PhoneDigits(PhoneOf)) = 10) => "phone" \notin DOMAIN addressErrors
        /\ (~OriginFlag /\ PhoneOf # <<>>) => "phone" \notin DOMAIN addressErrors
        /\ (OriginFlag /\ PhoneOf = <<"1">> \o Rep("5", 10)) => "phone" \notin DOMAIN addressErrors
        /\ (OriginFlag /\ PhoneOf = Rep("5", 9)) => PhoneErrorIs(MsgPhoneFormat)

C9_Witness ==
    /\ addressCall = "raw"
    /\ ~OriginFlag /\ DestinationFlag
    /\ PhoneOf # <<>> /\ Len(PhoneDigits(PhoneOf)) # 10
    /\ "phone" \notin DOMAIN addressErrors

(***************************************************************************)
(* Customs validation: properties                                          *)
(***************************************************************************)
RECURSIVE SumOf(_, _)
SumOf(amount, keys) ==
    IF keys = {} THEN 0
    ELSE LET k == CHOOSE x \in keys : TRUE
         IN  amount[k] + SumOf(amount, keys \ {k})

ArgPackages == customsArgs.packages

ArgItems == customsArgs.customs.items

\* every (package, position) of the package set
ItemPlaces == UNION {{<<p, i>> : i \in DOMAIN ArgPackages[p].items} : p \in DOMAIN ArgPackages}

PlaceItem(place) == ArgPackages[place[1]].items[place[2]]

PlaceTariff(place) == ArgItems[PlaceItem(place).product_id].tariffNumber

AllValuesDeclared ==
    \A id \in usedProductIds(ArgPackages) : ArgItems[id].value.kind \in {"num", "empty"}

\* quantity * declared value of every item of every package that carries the code
TariffTotal(code) ==
    LET places == {pl \in ItemPlaces : PlaceTariff(pl) = code}
    IN  SumOf([pl \in places |-> PlaceItem(pl).quantity * ArgItems[PlaceItem(pl).product_id].value.n],
              places)

ExceedingCodes(p) ==
    {PlaceTariff(pl) : pl \in {x \in ItemPlaces :
        /\ x[1] = p
        /\ PlaceTariff(x) # Undefined
        /\ Len(PlaceTariff(x)) = 6
        /\ TariffTotal(PlaceTariff(x)) > 2500}}

ThresholdMessages == {MsgItnThreshold(ArgItems[id].tariffNumber) : id \in DOMAIN ArgItems}

\* C10: the ITN value threshold is a per-tariff-code aggregate over all packages.  With
\* every declared value a number and destination other than 'CA', a package without an
\* itn gets the ITN-required error naming one of its exceeding codes exactly when one of
\* its items carries a 6-character tariff code whose total over all packages (quantity *
\* value) is above 2500; a total of exactly 2500 and codes that are not 6 characters long
\* never trigger it.
C10_ItnThresholdAggregate ==
    (customsErrors # Null /\ AllValuesDeclared /\ customsArgs.destinationCountryCode # "CA") =>
        \A p \in DOMAIN ArgPackages :
            ArgPackages[p].itn = <<>> =>
                LET errors == customsErrors.packages[p]
                IN  /\ ExceedingCodes(p) # {} =>
                          /\ "itn" \in DOMAIN errors
                          /\ \E code \in ExceedingCodes(p) : errors["itn"] = MsgItnThreshold(code)
                    /\ ExceedingCodes(p) = {} =>
                          ("itn" \in DOMAIN errors => errors["itn"] \notin ThresholdMessages)

\* packages pk1 and pk2 share code 123456 with values 1500 and 1200
C10_Witness ==
    /\ customsErrors # Null
    /\ customsArgs.destinationCountryCode = "GB"
    /\ DOMAIN ArgPackages = {"pk1", "pk2"}
    /\ ArgPackages["pk1"].items = <<Item(11, 1)>> /\ ArgPackages["pk2"].items = <<Item(12, 1)>>
    /\ ArgItems[11].value = Number(1500) /\ ArgItems[12].value = Number(1200)
    /\ ArgItems[11].tariffNumber = "123456" /\ ArgItems[12].tariffNumber = "123456"
    /\ ArgPackages["pk1"].itn = <<>> /\ ArgPackages["pk2"].itn = <<>>
    /\ customsErrors.packages["pk1"]["itn"] = MsgItnThreshold("123456")
    /\ customsErrors.packages["pk2"]["itn"] = MsgItnThreshold("123456")

\* the package p of the call has no itn value
NoItn(p) == ArgPackages[p].itn = <<>>

HasItnError(p) == "itn" \in DOMAIN customsErrors.packages[p]

\* C11: the ITN requirement of a package without an itn value.  Destination 'CA': never
\* an itn error, whatever the tariff totals.  Any other destination (declared values
\* being numbers): the threshold message when a tariff code of the package exceeds 2500;
\* the country message citing the destination country name only when no code exceeds it
\* and the destination is in the ITN-required list; no itn error in every other case.
C11_ItnRequirement ==
    customsErrors # Null =>
        \A p \in DOMAIN ArgPackages :
            NoItn(p) =>
                LET code == customsArgs.destinationCountryCode
                    errors == customsErrors.packages[p]
                IN  /\ code = "CA" => ~HasItnError(p)
                    /\ (code # "CA" /\ AllValuesDeclared) =>
                          IF ExceedingCodes(p) # {}
                          THEN HasItnError(p) /\ errors["itn"] \in ThresholdMessages
                          ELSE IF code \in {"IR", "SY", "KP", "CU", "SD"}
                          THEN HasItnError(p) /\ errors["itn"] = MsgItnCountry(CountryNames[code])
                          ELSE ~HasItnError(p)

\* destination 'CA', a package without itn whose code 123456 totals 3000: no itn error
C11_Witness ==
    /\ customsErrors # Null
    /\ customsArgs.destinationCountryCode = "CA"
    /\ \E p \in DOMAIN ArgPackages :
          /\ NoItn(p)
          /\ AllValuesDeclared
          /\ ExceedingCodes(p) # {}
          /\ ~HasItnError(p)

\* destination 'IR', no code above the threshold: the country message names Iran
C11_CountryMessageReached ==
    /\ customsErrors # Null
    /\ customsArgs.destinationCountryCode = "IR"
    /\ \E p \in DOMAIN ArgPackages :
          /\ NoItn(p)
          /\ ExceedingCodes(p) = {}
          /\ HasItnError(p)
          /\ customsErrors.packages[p]["itn"] = "International Transaction Number is required for shipments to Iran"

\* the product ids some package item refers to
ReferencedProducts == {PlaceItem(pl).product_id : pl \in ItemPlaces}

\* the user marked the field of product id as ignored
Marked(ignoreMap, id) == id \in DOMAIN ignoreMap /\ ignoreMap[id] = TRUE

\* a number input that is absent, empty, or does not parse to a value above zero
NotPositive(input) == input.kind # "num" \/ input.n <= 0

TextMissing(text) == text = "undefined" \/ text = ""

\* C12: per-item customs errors have one entry for each distinct product id some package
\* item refers to and none for other products of customs.items.  For each such product:
\* a description error iff the description is missing or shorter than 3 characters; a
\* weight (value) error iff the weight (value) is not marked ignored and is absent, empty
\* or does not parse to a value above zero; a tariffNumber error iff a tariff number is
\* present and not exactly 6 characters long.
C12_ItemErrors ==
    customsErrors # Null =>
        /\ DOMAIN customsErrors.items = ReferencedProducts
        /\ \A id \in ReferencedProducts :
              LET item == ArgItems[id]
                  errors == customsErrors.items[id]
              IN  /\ "description" \in DOMAIN errors <=>
                        (TextMissing(item.description) \/ Len(item.description) < 3)
                  /\ "weight" \in DOMAIN errors <=>
                        (~Marked(customsArgs.customs.ignoreWeightValidation, id) /\ NotPositive(item.weight))
                  /\ "value" \in DOMAIN errors <=>
                        (~Marked(customsArgs.customs.ignoreValueValidation, id) /\ NotPositive(item.value))
                  /\ "tariffNumber" \in DOMAIN errors <=>
                        (~TextMissing(item.tariffNumber) /\ Len(item.tariffNumber) # 6)

\* only product 11 is referenced; its weight is absent but marked ignored, its value is
\* zero, its description has 2 characters: errors for description and value, not weight,
\* and no entry for product 12
C12_Witness ==
    /\ customsErrors # Null
    /\ ReferencedProducts = {11}
    /\ DOMAIN ArgItems = {11, 12}
    /\ DOMAIN customsErrors.items = {11}
    /\ ArgItems[11].weight.kind = "undefined"
    /\ Marked(customsArgs.customs.ignoreWeightValidation, 11)
    /\ ~Marked(customsArgs.customs.ignoreValueValidation, 11)
    /\ ArgItems[11].value = [kind |-> "num", n |-> 0]
    /\ ArgItems[11].description = "ab"
    /\ DOMAIN customsErrors.items[11] = {"description", "value"}
    /\ customsErrors.items[11]["value"] = "Declared value must be greater than zero"

(***************************************************************************)
(* Rates errors and price breakdown: properties                            *)
(***************************************************************************)
\* the renderable texts of a provider error list, in order
RECURSIVE Renderable(_)
Renderable(errors) ==
    IF errors = <<>> THEN <<>>
    ELSE LET err == Head(errors)
             text == IF err.userMessage # "" THEN err.userMessage ELSE err.message
         IN  (IF text # "" THEN <<text>> ELSE <<>>) \o Renderable(Tail(errors))

ServicePicked(p) == p \in DOMAIN ratesArgs.values /\ ratesArgs.values[p].serviceId # ""

\* C13: getRatesErrors returns one entry per package id of rates.available and none for
\* a package absent from it.  The entry of a quoted package is, in this priority: (1) the
\* default quote has provider errors: their non-blank userMessage-or-message texts in
\* order, or the single "couldn't get a rate" message when none is renderable, even if a
\* service is selected; (2) a serviceId is selected: the empty list, even if the default
\* rate list is empty; (3) the default rate list is empty: 'no rates available';
\* (4) otherwise 'please choose a rate'.
C13_RatesErrorsByPriority ==
    ratesCall = "errors" =>
        /\ DOMAIN ratesErrors = DOMAIN ratesArgs.available
        /\ \A p \in DOMAIN ratesArgs.available :
              LET quote == ratesArgs.available[p]["default"]
                  texts == Renderable(quote.errors)
              IN  IF Len(quote.errors) > 0
                  THEN ratesErrors[p] =
                          (IF Len(texts) > 0 THEN texts
                           ELSE <<"We couldn't get a rate for this package, please try again.">>)
                  ELSE IF ServicePicked(p) THEN ratesErrors[p] = <<>>
                  ELSE IF Len(quote.rates) = 0
                  THEN ratesErrors[p] =
                          <<"No rates available, please double check dimensions and weight or try using different packaging.">>
                  ELSE ratesErrors[p] = <<"Please choose a rate">>

\* pk1 has a service selected and a quote with a blank and a renderable provider error:
\* the renderable text is reported; pk2 is selected but not quoted: no entry
C13_Witness ==
    /\ ratesCall = "errors"
    /\ DOMAIN ratesArgs.values = {"pk1", "pk2"}
    /\ DOMAIN ratesArgs.available = {"pk1"}
    /\ ServicePicked("pk1")
    /\ Len(ratesArgs.available["pk1"]["default"].errors) = 2
    /\ DOMAIN ratesErrors = {"pk1"}
    /\ ratesErrors["pk1"] = <<"Try later">>

\* a selected service with an empty default rate list and no provider error: no message
C13_SelectedWithoutRatesReached ==
    /\ ratesCall = "errors"
    /\ \E p \in DOMAIN ratesArgs.available :
          /\ ServicePicked(p)
          /\ ratesArgs.available[p]["default"].rates = <<>>
          /\ ratesArgs.available[p]["default"].errors = <<>>
          /\ ratesErrors[p] = <<>>

(***************************************************************************)
(* Customs requirement: properties                                         *)
(***************************************************************************)
Military(values) == values.country = "US" /\ values.state \in {"AA", "AE", "AP"}

\* C14: isCustomsFormRequired is true if the origin is a US military address, or the
\* destination is a US military address, or the origin and destination countries
\* differ; it is false otherwise: for every same-country pair without a military
\* address (origin 'GU', destination 'GU') and when the store holds no form.
C14_CustomsFormRequired ==
    gateCall = "required" =>
        (requiredResult <=>
            /\ Form # Null
            /\ \/ Military(Form.origin.values)
               \/ Military(Form.destination.values)
               \/ Form.origin.values.country # Form.destination.values.country)

\* origin 'GU', destination 'GU': no customs form
C14_Witness ==
    /\ gateCall = "required"
    /\ Form # Null
    /\ Form.origin.values.country = "GU"
    /\ Form.destination.values.country = "GU"
    /\ requiredResult = FALSE

\* a domestic shipment to a military address needs a customs form
C14_MilitaryDestinationReached ==
    /\ gateCall = "required"
    /\ Form # Null
    /\ Form.origin.values.country = "US" /\ Form.origin.values.state = "NY"
    /\ Form.destination.values.country = "US" /\ Form.destination.values.state = "AE"
    /\ requiredResult = TRUE

\* the quote of the default list that matches the service selected for package p
BaseMatches(p) ==
    {i \in DOMAIN ratesArgs.available[p]["default"].rates :
        ratesArgs.available[p]["default"].rates[i].service_id = ratesArgs.values[p].serviceId}

BaseQuote(p) ==
    ratesArgs.available[p]["default"].rates[CHOOSE i \in BaseMatches(p) : \A j \in BaseMatches(p) : i <= j]

\* the packages that produce a price line: selected, quoted, and the service is quoted
Priced ==
    IF ratesArgs = Null THEN {}
    ELSE {p \in DOMAIN ratesArgs.values \cap DOMAIN ratesArgs.available : BaseMatches(p) # {}}

\* the rates of the signature tier the selection of p names that are for the same service
TierMatches(p) ==
    LET tier == ratesArgs.values[p].signatureRequired
        quotes == ratesArgs.available[p]
    IN  IF tier \in DOMAIN quotes
        THEN {quotes[tier].rates[i].rate : i \in {j \in DOMAIN quotes[tier].rates :
                    quotes[tier].rates[j].service_id = ratesArgs.values[p].serviceId}}
        ELSE {}

\* what package p is charged: the signature-tier rate when there is one, else the base rate
Charged(p) ==
    IF TierMatches(p) # {} THEN CHOOSE r \in TierMatches(p) : TRUE ELSE BaseQuote(p).rate

PricedInOrder == SelectSeq(<<"pk1", "pk2">>, LAMBDA p : p \in Priced)

\* C15: getTotalPriceBreakdown produces exactly one price line for each package that has
\* a selected rate, is present in rates.available and whose selected serviceId matches a
\* rate of the default quote list, and returns null when no package produces a line or
\* there is no form.  The charged amount of a package is the signature-tier rate when
\* signatureRequired names a quoted tier holding the same service, otherwise the base
\* rate; the discount is the sum of round(retail_rate - base rate, 2), from the base rate
\* also when a signature tier is charged; total is the sum of the charged amounts.
\* Selected 'usps_priority', default quote 595 with retail 700 and no signature gives
\* discount 105, total 595 and one line with carrierTitle 'USPS'.
C15_PriceBreakdown ==
    ratesCall = "breakdown" =>
        IF Priced = {} THEN priceBreakdown = Null
        ELSE /\ priceBreakdown # Null
             /\ Len(priceBreakdown.prices) = Cardinality(Priced)
             /\ \A k \in DOMAIN PricedInOrder :
                   LET p == PricedInOrder[k]
                       line == priceBreakdown.prices[k]
                   IN  /\ line.title = BaseQuote(p).title
                       /\ line.retailRate = BaseQuote(p).retail_rate
                       /\ line.rateWithDiscount = BaseQuote(p).rate
             /\ priceBreakdown.discount =
                   SumOf([p \in Priced |-> BaseQuote(p).retail_rate - BaseQuote(p).rate], Priced)
             /\ priceBreakdown.total = SumOf([p \in Priced |-> Charged(p)], Priced)
             /\ (/\ Priced = {"pk1"}
                 /\ ratesArgs.values["pk1"] = [serviceId |-> "usps_priority", signatureRequired |-> ""]
                 /\ ratesArgs.available["pk1"]["default"].rates = <<PriorityRate>>)
                => /\ priceBreakdown.discount = 105
                   /\ priceBreakdown.total = 595
                   /\ Len(priceBreakdown.prices) = 1
                   /\ priceBreakdown.prices[1].carrierTitle = <<"U", "S", "P", "S">>

\* pk1 is charged the signature tier (845, base 595, retail 700), pk2 is selected but its
\* service is not quoted: one line, discount 105 from the base rate, total 845
C15_Witness ==
    /\ ratesCall = "breakdown"
    /\ ratesArgs # Null
    /\ DOMAIN ratesArgs.values = {"pk1", "pk2"}
    /\ DOMAIN ratesArgs.available = {"pk1", "pk2"}
    /\ Priced = {"pk1"}
    /\ TierMatches("pk1") = {845}
    /\ BaseQuote("pk1").rate = 595
    /\ priceBreakdown # Null
    /\ Len(priceBreakdown.prices) = 1
    /\ priceBreakdown.discount = 105
    /\ priceBreakdown.total = 845

\* the example of the specification: one package, no signature requirement
C15_ExampleReached ==
    /\ ratesCall = "breakdown"
    /\ ratesArgs # Null
    /\ ratesArgs.values = [p \in {"pk1"} |-> [serviceId |-> "usps_priority", signatureRequired |-> ""]]
    /\ ratesArgs.available = [p \in {"pk1"} |-> Quote(<<PriorityRate>>, <<>>)]
    /\ priceBreakdown.discount = 105
    /\ priceBreakdown.total = 595
    /\ Len(priceBreakdown.prices) = 1
    /\ priceBreakdown.prices[1].carrierTitle = <<"U", "S", "P", "S">>

\* selections exist but none is priced, or there is no form: null
C15_NullReached ==
    /\ ratesCall = "breakdown"
    /\ ratesArgs # Null
    /\ DOMAIN ratesArgs.values # {}
    /\ priceBreakdown = Null

RECURSIVE AddonsRate(_)
AddonsRate(addons) == IF addons = <<>> THEN 0 ELSE Head(addons).rate + AddonsRate(Tail(addons))

RECURSIVE LinesTotal(_)
LinesTotal(prices) ==
    IF prices = <<>> THEN 0
    ELSE Head(prices).rateWithDiscount + AddonsRate(Head(prices).addons) + LinesTotal(Tail(prices))

\* C18: a breakdown that is not null has a total equal to the sum over its price lines
\* of rateWithDiscount plus the rates of the line's addons, at most one addon on every
\* line, and at least 1 and at most as many price lines as packages with a selected rate.
C18_BreakdownTotals ==
    (ratesCall = "breakdown" /\ priceBreakdown # Null) =>
        /\ priceBreakdown.total = LinesTotal(priceBreakdown.prices)
        /\ \A k \in DOMAIN priceBreakdown.prices : Len(priceBreakdown.prices[k].addons) <= 1
        /\ Len(priceBreakdown.prices) >= 1
        /\ Len(priceBreakdown.prices) <= Cardinality(DOMAIN ratesArgs.values)

\* two lines, the first with a signature addon of 250: total 845 + 595
C18_Witness ==
    /\ ratesCall = "breakdown"
    /\ priceBreakdown # Null
    /\ Len(priceBreakdown.prices) = 2
    /\ Len(priceBreakdown.prices[1].addons) = 1
    /\ priceBreakdown.prices[1].addons[1].rate = 250
    /\ priceBreakdown.prices[1].rateWithDiscount = 595
    /\ priceBreakdown.prices[2].addons = <<>>
    /\ priceBreakdown.prices[2].rateWithDiscount = 595
    /\ priceBreakdown.total = 1440

(***************************************************************************)
(* Purchase gate and rate selection: properties                            *)
(***************************************************************************)
\* canPurchase ran on the present store and returned true
PurchaseAllowed == gateCall = "purchase" /\ purchaseResult = TRUE

RateChosen(p) == p \in DOMAIN Form.rates.values /\ Form.rates.values[p].serviceId # ""

\* C17, as claimed: canPurchase = true implies that every package of the form has a
\* selected rate.
C17_EveryPackageHasSelectedRate ==
    PurchaseAllowed => \A p \in DOMAIN Form.packages.selected : RateChosen(p)

\* C17, amended: canPurchase = true implies that every package id present in
\* rates.available has an empty provider error list in its default quote and a selected
\* rate with a non-empty serviceId, so that hasSelectedRates holds, and that both
\* addresses are normalized with values equal to their normalized values; a package of
\* the form that is absent from rates.available is not covered.
C17_QuotedPackagesHaveSelectedRate ==
    PurchaseAllowed =>
        /\ \A p \in DOMAIN Form.rates.available :
              /\ Form.rates.available[p]["default"].errors = <<>>
              /\ RateChosen(p)
        /\ hasSelectedRates(Form.rates)
        /\ \A group \in {"origin", "destination"} :
              /\ Form[group].isNormalized
              /\ Form[group].values = Form[group].normalized

\* purchase is allowed while pk2, a package of the form, is not quoted and has no rate
C17_Witness ==
    /\ PurchaseAllowed
    /\ DOMAIN Form.packages.selected = {"pk1", "pk2"}
    /\ DOMAIN Form.rates.available = {"pk1"}
    /\ RateChosen("pk1")
    /\ ~RateChosen("pk2")

(***************************************************************************)
(* Memoization: properties                                                 *)
(***************************************************************************)
\* the store as a selector without a cache reads it
Uncached == [State EXCEPT !.formErrorsCache = NoCache, !.usableCache = NoUsableCache]

\* C16: memoization is only an optimization.  After any sequence of store writes (field
\* edits, package or rate changes, paper-size change, location data being loaded while
\* the shipping-label subtree keeps its identity), each memoized selector, getFormErrors,
\* isAddressUsable, isCustomsFormRequired and canPurchase, returns a value equal to an
\* uncached recomputation on the current state: no stale result is ever returned.
C16_NoStaleResult ==
    /\ (gateCall \in {"step", "purchase"} /\ Form # Null) =>
          /\ UsedErrors = computeFormErrors(Uncached)
          /\ stepResult = getFirstErroneousStep(Uncached)
    /\ gateCall = "purchase" => purchaseResult = canPurchase(Uncached)
    /\ gateCall = "required" => requiredResult = isCustomsFormRequired(Uncached)
    /\ gateCall = "usable" => usableResult.value = computeAddressUsable(Uncached, usableResult.group)

\* C16, isAddressUsable alone: the cached result never differs from a recomputation
C16_UsableNeverStale ==
    gateCall = "usable" => usableResult.value = computeAddressUsable(Uncached, usableResult.group)

\* C16, getFormErrors alone: the cached error maps never differ from a recomputation
C16_FormErrorsNeverStale ==
    (gateCall \in {"step", "purchase"} /\ Form # Null) => UsedErrors = computeFormErrors(Uncached)

====
